---- MODULE Spec2Model ----
(***************************************************************************)
(* FlexOrder checkout (checkout_monolitico.py): payment and shipping       *)
(* strategies, order decorators, the Pedido context and CheckoutFacade.    *)
(*                                                                         *)
(* Amounts.  The program computes with Python floats.  Here an amount is   *)
(* an exact fixed-point number: the integer a stands for a / Scale reais.  *)
(* Scale = 2^7 * 5^5 makes every product the program forms within the      *)
(* bounds below (up to three 10% reductions, the 5% PIX discount, a 5% or  *)
(* 10% shipping rate) exactly representable, so no rounding takes place.   *)
(* MulFrac truncates where a product is not representable.                 *)
(***************************************************************************)
EXTENDS Integers, Sequences, FiniteSets, TLC

VARIABLES pedido, pc, descricao, valor_final, aprovado, retorno, anterior,
          chamadas, log

vars == <<pedido, pc, descricao, valor_final, aprovado, retorno, anterior,
          chamadas, log>>

----------------------------------------------------------------------------
(* Bounds of the model *)

MaxItens == 2

MaxChain == 2

MaxChamadas == 2

(* Program constants, in reais or in percent *)

LIMITE_PADRAO == 1000

LIMIAR_PEDIDO_GRANDE == 500

TAXA_PADRAO == 5

FRETE_TELETRANSPORTE == 50

FRETE_EXPRESSO_FIXO == 15

DESCONTO_PIX == 5

Scale == (2^7) * (5^5)

Reais(n) == n * Scale

(* floor(x * num / den) for x >= 0, without forming x * num *)
MulFrac(x, num, den) == (x \div den) * num + ((x % den) * num) \div den

(* Inputs: item prices, gift-wrap fees and credit limits, in reais *)
ItemValores == {100, 450, 500, 600}

Taxas == {TAXA_PADRAO, 60}

Limites == {LIMITE_PADRAO, 550}

----------------------------------------------------------------------------
(* Payment strategies *)

PagamentoPix == [tipo |-> "Pix", limite |-> 0]

PagamentoCredito(limite) == [tipo |-> "Credito", limite |-> limite]

PagamentoMana == [tipo |-> "Mana", limite |-> 0]

Processar_naoEstrito(pag, valor) ==
    IF pag.tipo = "Credito" THEN valor <= pag.limite ELSE TRUE

(* EstrategiaPagamento.processar: Credito approves iff valor < limite *)
Processar(pag, valor) ==
    IF pag.tipo = "Credito" THEN valor < pag.limite ELSE TRUE

(* EstrategiaPagamento.get_desconto, in percent *)
GetDesconto(pag) == IF pag.tipo = "Pix" THEN DESCONTO_PIX ELSE 0

(* Shipping strategies: EstrategiaFrete.calcular *)
Calcular(frete, valor_pedido) ==
    CASE frete = "Normal" -> MulFrac(valor_pedido, 5, 100)
      [] frete = "Expresso" ->
            MulFrac(valor_pedido, 10, 100) + Reais(FRETE_EXPRESSO_FIXO)
      [] frete = "Teletransporte" -> Reais(FRETE_TELETRANSPORTE)

----------------------------------------------------------------------------
(* Order components.  A component is a PedidoBase and the decorators      *)
(* wrapped around it, innermost first.                                     *)

RECURSIVE Soma(_)
Soma(s) == IF s = <<>> THEN 0 ELSE Head(s) + Soma(Tail(s))

(* PedidoBase.__init__: itens kept, valor_base is their sum *)
PedidoBase(itens) ==
    [itens |-> itens, valor_base |-> Soma(itens), decs |-> <<>>]

(* DescontoPedidoGrande(x) *)
DescontoPedidoGrande(x) ==
    [x EXCEPT !.decs = Append(@, [tipo |-> "DescontoPedidoGrande", taxa |-> 0])]

(* TaxaEmbalagemPresente(x, taxa) *)
TaxaEmbalagemPresente(x, taxa) ==
    [x EXCEPT !.decs = Append(@, [tipo |-> "TaxaEmbalagemPresente", taxa |-> taxa])]

(* DecoradorPedido._pedido: the component a decorator wraps *)
Interno(c) == [c EXCEPT !.decs = SubSeq(@, 1, Len(@) - 1)]

Topo(c) == c.decs[Len(c.decs)]

RECURSIVE CalcularValor_limiarInclusivo(_)
CalcularValor_limiarInclusivo(c) ==
    IF c.decs = <<>> THEN c.valor_base
    ELSE LET valor == CalcularValor_limiarInclusivo(Interno(c)) IN
         IF Topo(c).tipo = "DescontoPedidoGrande"
         THEN IF valor >= Reais(LIMIAR_PEDIDO_GRANDE)
              THEN MulFrac(valor, 90, 100) ELSE valor
         ELSE valor + Topo(c).taxa

RECURSIVE CalcularValor_taxaAposDesconto(_)
CalcularValor_taxaAposDesconto(c) ==
    LET RECURSIVE Bruto(_)
        Bruto(d) == IF d.decs = <<>> THEN d.valor_base
                    ELSE Bruto(Interno(d)) + Topo(d).taxa
        valor == Bruto(c)
    IN IF \E i \in 1..Len(c.decs) : c.decs[i].tipo = "DescontoPedidoGrande"
       THEN IF valor > Reais(LIMIAR_PEDIDO_GRANDE)
            THEN MulFrac(valor, 90, 100) ELSE valor
       ELSE valor

(* ComponentePedido.calcular_valor *)
RECURSIVE CalcularValor(_)
CalcularValor(c) ==
    IF c.decs = <<>> THEN c.valor_base
    ELSE LET valor == CalcularValor(Interno(c)) IN
         IF Topo(c).tipo = "DescontoPedidoGrande"
         THEN IF valor > Reais(LIMIAR_PEDIDO_GRANDE)
              THEN MulFrac(valor, 90, 100) ELSE valor
         ELSE valor + Topo(c).taxa

(* f"{x:.2f}": the amount in cents, rounded to nearest, ties to even *)
Fmt2(x) ==
    LET c == Scale \div 100
        q == x \div c
        r == x % c
    IN IF 2 * r > c \/ (2 * r = c /\ q % 2 = 1) THEN q + 1 ELSE q

NotaItens(n) == [nota |-> "Pedido com n itens", n |-> n]

NotaDesconto == [nota |-> " + Desconto Pedido Grande (10%)", n |-> 10]

NotaEmbalagem(taxa) == [nota |-> " + Embalagem Presente (R$)", n |-> Fmt2(taxa)]

RECURSIVE GetDescricao_valorDescontado(_)
GetDescricao_valorDescontado(c) ==
    IF c.decs = <<>> THEN <<NotaItens(Len(c.itens))>>
    ELSE IF Topo(c).tipo = "DescontoPedidoGrande"
         THEN IF CalcularValor(c) > Reais(LIMIAR_PEDIDO_GRANDE)
              THEN Append(GetDescricao_valorDescontado(Interno(c)), NotaDesconto)
              ELSE GetDescricao_valorDescontado(Interno(c))
         ELSE Append(GetDescricao_valorDescontado(Interno(c)),
                     NotaEmbalagem(Topo(c).taxa))

(* ComponentePedido.get_descricao: the description as its sequence of parts *)
RECURSIVE GetDescricao(_)
GetDescricao(c) ==
    IF c.decs = <<>> THEN <<NotaItens(Len(c.itens))>>
    ELSE IF Topo(c).tipo = "DescontoPedidoGrande"
         THEN IF CalcularValor(Interno(c)) > Reais(LIMIAR_PEDIDO_GRANDE)
              THEN Append(GetDescricao(Interno(c)), NotaDesconto)
              ELSE GetDescricao(Interno(c))
         ELSE Append(GetDescricao(Interno(c)), NotaEmbalagem(Topo(c).taxa))

----------------------------------------------------------------------------
(* Pedido: the context binding a component to its two strategies *)

NovoPedido(componente, pagamento, frete) ==
    [componente_pedido |-> componente,
     estrategia_pagamento |-> pagamento,
     estrategia_frete |-> frete]

CalcularValorComDescontoPagamento(p) ==
    LET valor == CalcularValor(p.componente_pedido)
        desconto == GetDesconto(p.estrategia_pagamento)
    IN IF desconto > 0 THEN MulFrac(valor, 100 - desconto, 100) ELSE valor

CalcularFrete_semDesconto(p) ==
    Calcular(p.estrategia_frete, CalcularValor(p.componente_pedido))

CalcularFrete(p) ==
    LET valor_com_desconto == CalcularValorComDescontoPagamento(p)
    IN Calcular(p.estrategia_frete, valor_com_desconto)

CalcularValorFinal(p) ==
    LET valor_com_desconto == CalcularValorComDescontoPagamento(p)
        custo_frete == CalcularFrete(p)
    IN valor_com_desconto + custo_frete

PedidoGetDescricao(p) == GetDescricao(p.componente_pedido)

----------------------------------------------------------------------------
(* The orders the program can construct within the bounds *)

ItemListas ==
    UNION {[1..n -> {Reais(v) : v \in ItemValores}] : n \in 0..MaxItens}

RECURSIVE Componentes(_)
Componentes(n) ==
    IF n = 0 THEN {PedidoBase(itens) : itens \in ItemListas}
    ELSE LET S == Componentes(n - 1) IN
         S \cup {DescontoPedidoGrande(x) : x \in S}
           \cup {TaxaEmbalagemPresente(x, Reais(t)) : x \in S, t \in Taxas}

Pagamentos ==
    {PagamentoPix, PagamentoMana}
        \cup {PagamentoCredito(Reais(l)) : l \in Limites}

Fretes == {"Normal", "Expresso", "Teletransporte"}

Pedidos ==
    {NovoPedido(c, pg, f) : c \in Componentes(MaxChain), pg \in Pagamentos,
                            f \in Fretes}

(* One observable call: which operation, on which order, with which amount *)
(* (-1 where the operation takes none) and what it returned                *)
Ev(op, p, valor, ret) == [op |-> op, pedido |-> p, valor |-> valor, ret |-> ret]

Bool(b) == IF b THEN "True" ELSE "False"

----------------------------------------------------------------------------
(* State after construction: an order bound to its strategies, a facade,   *)
(* and no call made yet                                                    *)
Init ==
    /\ pedido \in Pedidos
    /\ pc = "main"
    /\ descricao = <<>>
    /\ valor_final = -1
    /\ aprovado = FALSE
    /\ retorno = "None"
    /\ anterior = "None"
    /\ chamadas = 0
    /\ log = <<>>

(* checkout.concluir_transacao(pedido) is entered; lines 304-306 *)
Chamar ==
    /\ pc = "main"
    /\ chamadas < MaxChamadas
    /\ chamadas' = chamadas + 1
    /\ anterior' = retorno
    /\ retorno' = "None"
    /\ descricao' = PedidoGetDescricao(pedido)
    /\ valor_final' = -1
    /\ aprovado' = FALSE
    /\ log' = <<>>
    /\ pc' = "L309"
    /\ UNCHANGED pedido

(* line 309: valor_final = pedido.calcular_valor_final() *)
CalcularValores ==
    /\ pc = "L309"
    /\ valor_final' = CalcularValorFinal(pedido)
    /\ log' = Append(log, Ev("calcular_valor_final", pedido,
                             CalcularValorFinal(pedido), "None"))
    /\ pc' = "L313"
    /\ UNCHANGED <<pedido, descricao, aprovado, retorno, anterior, chamadas>>

ProcessarPagamento_ignoraResultado ==
    /\ pc = "L313"
    /\ LET valor == CalcularValorFinal(pedido)
           ret == Processar(pedido.estrategia_pagamento, valor)
       IN /\ log' = log \o <<Ev("calcular_valor_final", pedido, valor, "None"),
                             Ev("processar", pedido, valor, Bool(ret))>>
          /\ aprovado' = ret
          /\ pc' = "L315"
    /\ UNCHANGED <<pedido, descricao, valor_final, retorno, anterior, chamadas>>

ProcessarPagamento_semFrete ==
    /\ pc = "L313"
    /\ LET valor == CalcularValorComDescontoPagamento(pedido)
           ret == Processar(pedido.estrategia_pagamento, valor)
       IN /\ log' = log \o <<Ev("calcular_valor_final", pedido, valor, "None"),
                             Ev("processar", pedido, valor, Bool(ret))>>
          /\ aprovado' = ret
          /\ pc' = IF ret THEN "L315" ELSE "L320"
    /\ UNCHANGED <<pedido, descricao, valor_final, retorno, anterior, chamadas>>

ProcessarPagamento_debitaLimite ==
    /\ pc = "L313"
    /\ LET valor == CalcularValorFinal(pedido)
           ret == Processar(pedido.estrategia_pagamento, valor)
       IN /\ log' = log \o <<Ev("calcular_valor_final", pedido, valor, "None"),
                             Ev("processar", pedido, valor, Bool(ret))>>
          /\ aprovado' = ret
          /\ pc' = IF ret THEN "L315" ELSE "L320"
          /\ pedido' = IF ret /\ pedido.estrategia_pagamento.tipo = "Credito"
                       THEN [pedido EXCEPT !.estrategia_pagamento.limite = @ - valor]
                       ELSE pedido
    /\ UNCHANGED <<descricao, valor_final, retorno, anterior, chamadas>>

ProcessarPagamento_tentaNovamente ==
    /\ pc = "L313"
    /\ LET valor == CalcularValorFinal(pedido)
           ret == Processar(pedido.estrategia_pagamento, valor)
           uma == <<Ev("calcular_valor_final", pedido, valor, "None"),
                    Ev("processar", pedido, valor, Bool(ret))>>
       IN /\ log' = IF ret THEN log \o uma ELSE log \o uma \o uma
          /\ aprovado' = ret
          /\ pc' = IF ret THEN "L315" ELSE "L320"
    /\ UNCHANGED <<pedido, descricao, valor_final, retorno, anterior, chamadas>>

(* line 313: pedido.processar_pagamento(), lines 254-257: the final value  *)
(* is computed again and handed to the payment strategy's processar        *)
ProcessarPagamento ==
    /\ pc = "L313"
    /\ LET valor == CalcularValorFinal(pedido)
           ret == Processar(pedido.estrategia_pagamento, valor)
       IN /\ log' = log \o <<Ev("calcular_valor_final", pedido, valor, "None"),
                             Ev("processar", pedido, valor, Bool(ret))>>
          /\ aprovado' = ret
          /\ pc' = IF ret THEN "L315" ELSE "L320"
    /\ UNCHANGED <<pedido, descricao, valor_final, retorno, anterior, chamadas>>

(* line 315: self.sistema_estoque.registrar_pedido(pedido) *)
RegistrarPedido ==
    /\ pc = "L315"
    /\ log' = Append(log, Ev("registrar_pedido", pedido, -1, "None"))
    /\ pc' = "L316"
    /\ UNCHANGED <<pedido, descricao, valor_final, aprovado, retorno, anterior,
                   chamadas>>

EmitirNota_valorSemFrete ==
    /\ pc = "L316"
    /\ log' = Append(log, Ev("emitir_nota", pedido,
                             CalcularValorComDescontoPagamento(pedido), "None"))
    /\ pc' = "L317"
    /\ UNCHANGED <<pedido, descricao, valor_final, aprovado, retorno, anterior,
                   chamadas>>

(* line 316: self.gerador_nota.emitir_nota(pedido, valor_final) *)
EmitirNota ==
    /\ pc = "L316"
    /\ log' = Append(log, Ev("emitir_nota", pedido, valor_final, "None"))
    /\ pc' = "L317"
    /\ UNCHANGED <<pedido, descricao, valor_final, aprovado, retorno, anterior,
                   chamadas>>

(* line 317: return True *)
RetornarTrue ==
    /\ pc = "L317"
    /\ retorno' = "True"
    /\ pc' = "main"
    /\ UNCHANGED <<pedido, descricao, valor_final, aprovado, anterior, chamadas,
                   log>>

(* line 320: return False *)
RetornarFalse ==
    /\ pc = "L320"
    /\ retorno' = "False"
    /\ pc' = "main"
    /\ UNCHANGED <<pedido, descricao, valor_final, aprovado, anterior, chamadas,
                   log>>

Next ==
    \/ Chamar
    \/ CalcularValores
    \/ ProcessarPagamento
    \/ RegistrarPedido
    \/ EmitirNota
    \/ RetornarTrue
    \/ RetornarFalse

Spec == Init /\ [][Next]_vars

----------------------------------------------------------------------------
(* Helpers of the properties *)

Limiar == Reais(LIMIAR_PEDIDO_GRANDE)

(* The component made of the base and its first k decorators *)
Sub(c, k) == [c EXCEPT !.decs = SubSeq(@, 1, k)]

Indices(op) == {i \in 1..Len(log) : log[i].op = op}

Ops == [i \in 1..Len(log) |-> log[i].op]

Retornou == pc = "main" /\ chamadas > 0

EhCredito(p) == p.estrategia_pagamento.tipo = "Credito"

----------------------------------------------------------------------------
(* C1: when the payment strategy's processar returns False, the call      *)
(* returns False and neither registrar_pedido nor emitir_nota is called    *)
(* at any point of that call.                                              *)
C1_RejeicaoSemEfeitos ==
    (\E i \in Indices("processar") : log[i].ret = "False") =>
        /\ Indices("registrar_pedido") = {}
        /\ Indices("emitir_nota") = {}
        /\ pc \in {"L320", "main"}
        /\ (pc = "main" => retorno = "False")

C1_Witness ==
    /\ Retornou
    /\ retorno = "False"
    /\ \E i \in Indices("processar") : log[i].ret = "False"
    /\ Len(pedido.componente_pedido.decs) > 0

(* C2: on approval the call computes the final value, processes the       *)
(* payment, calls registrar_pedido with the order, then emitir_nota with   *)
(* the order and the final value of the first step, and then returns True; *)
(* no collaborator is called before the payment was approved.              *)
C2_OrdemDosPassos ==
    /\ (Retornou /\ retorno = "True") =>
          /\ Ops = <<"calcular_valor_final", "calcular_valor_final",
                     "processar", "registrar_pedido", "emitir_nota">>
          /\ log[3].ret = "True"
          /\ log[4].pedido = pedido
          /\ log[5].pedido = pedido
          /\ log[5].valor = log[1].valor
    /\ \A i \in Indices("registrar_pedido") \cup Indices("emitir_nota") :
          \E j \in Indices("processar") : j < i /\ log[j].ret = "True"
    /\ \A i \in Indices("emitir_nota") :
          \E j \in Indices("registrar_pedido") : j < i
    /\ (pc = "main" /\ Indices("registrar_pedido") # {}) => retorno = "True"

C2_Witness ==
    /\ Retornou
    /\ retorno = "True"
    /\ Len(log) = 5
    /\ log[5].op = "emitir_nota"
    /\ log[5].valor > Limiar

(* C3: PagamentoCredito.processar(valor) returns True iff valor < limite;  *)
(* valor = limite and valor > limite are rejected, so a credit-paid call   *)
(* returns True exactly when the order's final value is below the limit.   *)
C3_CreditoEstrito ==
    /\ \A i \in Indices("processar") :
          EhCredito(log[i].pedido) =>
             /\ (log[i].ret = "True") <=>
                   (log[i].valor < log[i].pedido.estrategia_pagamento.limite)
             /\ log[i].valor >= log[i].pedido.estrategia_pagamento.limite
                   => log[i].ret = "False"
    /\ (Retornou /\ EhCredito(pedido)) =>
          ((retorno = "True") <=>
              (valor_final < pedido.estrategia_pagamento.limite))

C3_Witness ==
    /\ Retornou
    /\ EhCredito(pedido)
    /\ retorno = "False"
    /\ \E i \in Indices("processar") :
          log[i].valor = pedido.estrategia_pagamento.limite

(* C4: calcular_valor_final equals the payment-discounted value plus the   *)
(* shipping cost, and the shipping cost is computed from the discounted    *)
(* value (component value times (1 - rate) when the rate is > 0), never    *)
(* from the undiscounted component value.                                  *)
C4_FinalSobreValorComDesconto ==
    \A i \in Indices("calcular_valor_final") :
        LET p == log[i].pedido
            v == CalcularValor(p.componente_pedido)
            d == IF p.estrategia_pagamento.tipo = "Pix"
                 THEN v - (v \div 100) * DESCONTO_PIX ELSE v
        IN /\ d = CalcularValorComDescontoPagamento(p)
           /\ log[i].valor = d + Calcular(p.estrategia_frete, d)
           /\ (d # v /\ p.estrategia_frete # "Teletransporte") =>
                 log[i].valor # d + Calcular(p.estrategia_frete, v)

C4_Witness ==
    /\ pc = "L313"
    /\ pedido.estrategia_pagamento.tipo = "Pix"
    /\ pedido.estrategia_frete = "Expresso"
    /\ CalcularValor(pedido.componente_pedido) > 0
    /\ valor_final = log[1].valor

(* C5: DescontoPedidoGrande(x).calcular_valor() is x.calcular_valor() less *)
(* 10% when x.calcular_valor() > 500 and x.calcular_valor() otherwise; a   *)
(* wrapped value of exactly 500 receives no discount.                      *)
C5_DescontoAcimaDe500 ==
    LET c == pedido.componente_pedido IN
    \A k \in 1..Len(c.decs) :
        c.decs[k].tipo = "DescontoPedidoGrande" =>
            LET vx == CalcularValor(Sub(c, k - 1))
                r == CalcularValor(DescontoPedidoGrande(Sub(c, k - 1)))
            IN /\ r = CalcularValor(Sub(c, k))
               /\ vx > Limiar => (vx % 10 = 0 /\ r = vx - vx \div 10)
               /\ vx <= Limiar => r = vx

C5_Witness ==
    LET c == pedido.componente_pedido IN
    /\ pc = "L313"
    /\ Len(c.decs) = 1
    /\ c.decs[1].tipo = "DescontoPedidoGrande"
    /\ c.valor_base = Limiar
    /\ pedido.estrategia_frete = "Teletransporte"
    /\ pedido.estrategia_pagamento.tipo = "Mana"
    /\ valor_final = Limiar + Reais(FRETE_TELETRANSPORTE)

(* C6: when the gift-wrap fee crosses the threshold (v <= 500 < v + f),    *)
(* TaxaEmbalagemPresente then DescontoPedidoGrande and the reverse order   *)
(* give different calcular_valor() results and different final values for  *)
(* the same payment and shipping strategies.                               *)
C6_OrdemDosDecoradores ==
    LET c == pedido.componente_pedido
        n == Len(c.decs)
    IN (/\ n >= 2
        /\ c.decs[n].tipo = "DescontoPedidoGrande"
        /\ c.decs[n - 1].tipo = "TaxaEmbalagemPresente"
        /\ CalcularValor(Sub(c, n - 2)) <= Limiar
        /\ CalcularValor(Sub(c, n - 2)) + c.decs[n - 1].taxa > Limiar) =>
           LET x == Sub(c, n - 2)
               f == c.decs[n - 1].taxa
               inverso == TaxaEmbalagemPresente(DescontoPedidoGrande(x), f)
               outro == NovoPedido(inverso, pedido.estrategia_pagamento,
                                   pedido.estrategia_frete)
           IN /\ CalcularValor(c) # CalcularValor(inverso)
              /\ CalcularValorFinal(pedido) # CalcularValorFinal(outro)
              /\ \A i \in Indices("calcular_valor_final") :
                    log[i].valor # CalcularValorFinal(outro)

C6_Witness ==
    LET c == pedido.componente_pedido IN
    /\ pc = "L313"
    /\ Len(c.decs) = 2
    /\ c.decs[2].tipo = "DescontoPedidoGrande"
    /\ c.decs[1].tipo = "TaxaEmbalagemPresente"
    /\ c.valor_base <= Limiar
    /\ c.valor_base + c.decs[1].taxa > Limiar
    /\ valor_final = CalcularValorFinal(pedido)

(* C7: within one call the amount passed to processar (recomputed inside   *)
(* processar_pagamento) equals the final value of the facade's first step, *)
(* which is the value later passed to emitir_nota.                         *)
C7_ValoresConcordam ==
    /\ \A i \in Indices("processar") :
          /\ log[1].op = "calcular_valor_final"
          /\ log[i].valor = log[1].valor
          /\ log[i].valor = valor_final
    /\ \A i \in Indices("emitir_nota") :
          /\ log[i].valor = valor_final
          /\ \A j \in Indices("processar") : log[i].valor = log[j].valor

C7_Witness ==
    /\ pc = "L317"
    /\ \E i \in Indices("emitir_nota"), j \in Indices("processar") :
          log[i].valor = log[j].valor /\ log[i].valor > 0
    /\ pedido.estrategia_frete = "Normal"

(* C8: no step of concluir_transacao, and no Pedido operation it runs,     *)
(* changes the order's component, strategies, decorator chain, item list,  *)
(* cached base value, gift-wrap fee or credit limit; a repeated call on    *)
(* the same order returns what the call before it returned.                *)
C8_PedidoImutavel ==
    [][/\ pedido' = pedido
       /\ (pc' = "main" /\ anterior' # "None") => retorno' = anterior']_vars

C8_Witness ==
    /\ pc = "main"
    /\ chamadas = MaxChamadas
    /\ anterior = "True"
    /\ retorno = "True"
    /\ EhCredito(pedido)

(* C9: DescontoPedidoGrande(x).get_descricao() is x.get_descricao() with   *)
(* the discount note appended iff x.calcular_valor(), the inner raw value, *)
(* is > 500, and x.get_descricao() otherwise; the note is present exactly  *)
(* when calcular_valor() of the same decorator applies the reduction.      *)
C9_NotaPeloValorInterno ==
    LET c == pedido.componente_pedido IN
    /\ \A k \in 1..Len(c.decs) :
          c.decs[k].tipo = "DescontoPedidoGrande" =>
             LET x == Sub(c, k - 1)
                 dx == DescontoPedidoGrande(x)
                 vx == CalcularValor(x)
             IN /\ vx > Limiar =>
                      GetDescricao(dx) = Append(GetDescricao(x), NotaDesconto)
                /\ vx <= Limiar => GetDescricao(dx) = GetDescricao(x)
                /\ (GetDescricao(dx) # GetDescricao(x)) <=>
                      (CalcularValor(dx) # vx)
    /\ chamadas > 0 => descricao = GetDescricao(c)

C9_Witness ==
    LET c == pedido.componente_pedido IN
    /\ pc = "L309"
    /\ Len(c.decs) = 1
    /\ c.decs[1].tipo = "DescontoPedidoGrande"
    /\ c.valor_base > Limiar
    /\ CalcularValor(c) <= Limiar
    /\ descricao = <<NotaItens(Len(c.itens)), NotaDesconto>>

(* C10: in every call processar is invoked exactly once (no retry after    *)
(* rejection, no second charge after approval) although the final value is *)
(* computed twice, and only after the facade's first final-value           *)
(* computation.                                                            *)
C10_UmaCobranca ==
    /\ Cardinality(Indices("processar")) <= 1
    /\ (pc \in {"L315", "L316", "L317", "L320"} \/ Retornou) =>
          /\ Cardinality(Indices("processar")) = 1
          /\ Cardinality(Indices("calcular_valor_final")) = 2
    /\ \A i \in Indices("processar") :
          /\ i > 1
          /\ log[1].op = "calcular_valor_final"
          /\ log[1].valor = valor_final
    /\ pc \in {"L309", "L313"} => Indices("processar") = {}

C10_Witness ==
    /\ Retornou
    /\ retorno = "False"
    /\ Cardinality(Indices("processar")) = 1
    /\ Cardinality(Indices("calcular_valor_final")) = 2
    /\ chamadas = 1

====
